---- MODULE Spec2Model ----
(* Model of src/debug_mqtt_packet.py: a linear script that slices the      *)
(* payload out of one MQTT PUBLISH packet and compares the remaining       *)
(* length declared in the fixed header with the one it computes.           *)
(* The packet literal and the literal topic length are generalised to      *)
(* inputs drawn in Init; the script's own pair is one of them.  The        *)
(* module-level names of the script are the state, one action per group    *)
(* of statements.  print only reads state, so the printed values are kept  *)
(* only where a later check needs them (matches, line 30).                 *)
EXTENDS Integers, Sequences, FiniteSets, TLC

\* ---------------------------------------------------------------- bounds
MaxLen == 5        \* longest generated packet
MaxByte == 3       \* generated packets use the byte values 0..MaxByte
MaxTopicLen == 3   \* generated topic lengths are 0..MaxTopicLen
MaxRuns == 2       \* number of times the script body is executed

\* ------------------------------------------------------- source literals
\* lines 4-11: the packet literal
ScriptPacket ==
    << 48, 24,
       0, 10,
       116, 101, 115, 116, 47, 116, 111, 112, 105, 99,
       72, 101, 108, 108, 111, 44, 32, 87, 111, 114, 108, 100, 33 >>

\* line 20: topic_len = 10
ScriptTopicLen == 10

\* line 19: topic_len_field = 2
TopicLenFieldSize == 2

\* line 14 / line 21: the two fixed-header bytes
HeaderBytes == 2

\* --------------------------------------------------------------- helpers
Min(a, b) == IF a < b THEN a ELSE b
Max(a, b) == IF a > b THEN a ELSE b

\* Python's zero-based list indexing lst[i] for 0 <= i < len(lst)
At(lst, i) == lst[i + 1]

\* Python's lst[start:] : a negative start counts from the end, and the
\* start is clamped into 0..len(lst); the slice never raises.
PySliceFromOffByOne(lst, start) ==
    LET n == Len(lst)
        lo == IF start < 0 THEN Max(start + n, 0) ELSE Min(start, n)
    IN  SubSeq(lst, Max(lo, 1), n)

PySliceFrom(lst, start) ==
    LET n == Len(lst)
        lo == IF start < 0 THEN Max(start + n, 0) ELSE Min(start, n)
    IN  SubSeq(lst, lo + 1, n)

\* line 21: payload_start = 2 + topic_len_field + topic_len
PayloadStartNoHeader(tlf, tl) == tlf + tl

PayloadStart(tlf, tl) == HeaderBytes + tlf + tl

\* line 27: expected_remaining = topic_len_field + topic_len + len(payload)
ExpectedRemainingNoTopic(tlf, tl, pl) == tlf + Len(pl)

ExpectedRemaining(tlf, tl, pl) == tlf + tl + Len(pl)

\* lines 15, 29, 30: mqtt_packet[1], the declared remaining length
DeclaredRemainingControlByte(pkt) == At(pkt, 0)

DeclaredRemaining(pkt) == At(pkt, 1)

\* the big-endian value of the topic length prefix at packet[2..3]
\* (lines 6: "Topic length = 10"); the script never computes it.
TopicPrefix(pkt) == At(pkt, 2) * 256 + At(pkt, 3)

\* ----------------------------------------------------------------- state
VARIABLES
    mqtt_packet,        \* line 4
    topicLength,        \* the value line 20 assigns (10 in the script)
    topic_len_field,    \* line 19
    topic_len,          \* line 20
    payload_start,      \* line 21
    payload,            \* line 22
    expected_remaining, \* line 27
    matches,            \* the value line 30 prints
    err,                \* "none", or the exception that ended the run
    pc,                 \* position in the script
    runs,               \* how many times the body was started
    firstRecord         \* outcome of the first run (history variable)

vars == << mqtt_packet, topicLength, topic_len_field, topic_len,
           payload_start, payload, expected_remaining, matches, err, pc,
           runs, firstRecord >>

RECURSIVE SeqsOfLen(_, _)
SeqsOfLen(S, n) ==
    IF n = 0 THEN { <<>> }
    ELSE { Append(s, b) : s \in SeqsOfLen(S, n - 1), b \in S }

Packets == UNION { SeqsOfLen(0..MaxByte, n) : n \in 0..MaxLen }

\* the outcome of a finished run
Record ==
    IF err # "none"
    THEN [ error |-> err, declaredRemainingLength |-> 0,
           computedPayloadLength |-> 0, computedRemainingLength |-> 0,
           matches |-> FALSE, payloadBytes |-> <<>> ]
    ELSE [ error |-> "none",
           declaredRemainingLength |-> DeclaredRemaining(mqtt_packet),
           computedPayloadLength |-> Len(payload),
           computedRemainingLength |-> expected_remaining,
           matches |-> matches, payloadBytes |-> payload ]

NoRecord ==
    [ error |-> "unrun", declaredRemainingLength |-> 0,
      computedPayloadLength |-> 0, computedRemainingLength |-> 0,
      matches |-> FALSE, payloadBytes |-> <<>> ]

Init ==
    /\ mqtt_packet \in Packets \cup { ScriptPacket }
    /\ topicLength \in (0..MaxTopicLen) \cup { ScriptTopicLen }
    /\ topic_len_field = 0
    /\ topic_len = 0
    /\ payload_start = 0
    /\ payload = <<>>
    /\ expected_remaining = 0
    /\ matches = FALSE
    /\ err = "none"
    /\ pc = "header"
    /\ runs = 1
    /\ firstRecord = NoRecord

\* lines 13-16: the header prints; mqtt_packet[1] raises IndexError on a
\* packet shorter than two bytes.
PrintHeader ==
    /\ pc = "header"
    /\ IF Len(mqtt_packet) < 2
       THEN /\ err' = "IndexError"
            /\ pc' = "failed"
       ELSE /\ err' = err
            /\ pc' = "consts"
    /\ UNCHANGED << mqtt_packet, topicLength, topic_len_field, topic_len,
                    payload_start, payload, expected_remaining, matches,
                    runs, firstRecord >>

\* lines 19-20
AssignConstsDecoded ==
    /\ pc = "consts"
    /\ topic_len_field' = TopicLenFieldSize
    /\ topic_len' = IF Len(mqtt_packet) >= 4 THEN TopicPrefix(mqtt_packet)
                    ELSE 0
    /\ pc' = "start"
    /\ UNCHANGED << mqtt_packet, topicLength, payload_start, payload,
                    expected_remaining, matches, err, runs, firstRecord >>

AssignConsts ==
    /\ pc = "consts"
    /\ topic_len_field' = TopicLenFieldSize
    /\ topic_len' = topicLength
    /\ pc' = "start"
    /\ UNCHANGED << mqtt_packet, topicLength, payload_start, payload,
                    expected_remaining, matches, err, runs, firstRecord >>

\* line 21
CalcPayloadStart ==
    /\ pc = "start"
    /\ payload_start' = PayloadStart(topic_len_field, topic_len)
    /\ pc' = "slice"
    /\ UNCHANGED << mqtt_packet, topicLength, topic_len_field, topic_len,
                    payload, expected_remaining, matches, err, runs,
                    firstRecord >>

\* lines 22-24: the slice and the two payload prints (chr of a byte never
\* raises)
SlicePayloadStrict ==
    /\ pc = "slice"
    /\ IF payload_start > Len(mqtt_packet)
       THEN /\ err' = "OutOfRange"
            /\ pc' = "failed"
            /\ payload' = payload
       ELSE /\ err' = err
            /\ pc' = "expected"
            /\ payload' = PySliceFrom(mqtt_packet, payload_start)
    /\ UNCHANGED << mqtt_packet, topicLength, topic_len_field, topic_len,
                    payload_start, expected_remaining, matches, runs,
                    firstRecord >>

SlicePayloadAccumulate ==
    /\ pc = "slice"
    /\ payload' = payload \o PySliceFrom(mqtt_packet, payload_start)
    /\ pc' = "expected"
    /\ UNCHANGED << mqtt_packet, topicLength, topic_len_field, topic_len,
                    payload_start, expected_remaining, matches, err, runs,
                    firstRecord >>

SlicePayload ==
    /\ pc = "slice"
    /\ payload' = PySliceFrom(mqtt_packet, payload_start)
    /\ pc' = "expected"
    /\ UNCHANGED << mqtt_packet, topicLength, topic_len_field, topic_len,
                    payload_start, expected_remaining, matches, err, runs,
                    firstRecord >>

\* lines 27-28
CalcExpected ==
    /\ pc = "expected"
    /\ expected_remaining' =
           ExpectedRemaining(topic_len_field, topic_len, payload)
    /\ pc' = "match"
    /\ UNCHANGED << mqtt_packet, topicLength, topic_len_field, topic_len,
                    payload_start, payload, matches, err, runs,
                    firstRecord >>

\* lines 29-30
CheckMatchRaising ==
    /\ pc = "match"
    /\ matches' = (expected_remaining = DeclaredRemaining(mqtt_packet))
    /\ IF expected_remaining = DeclaredRemaining(mqtt_packet)
       THEN /\ err' = err
            /\ pc' = "done"
       ELSE /\ err' = "LengthMismatch"
            /\ pc' = "failed"
    /\ UNCHANGED << mqtt_packet, topicLength, topic_len_field, topic_len,
                    payload_start, payload, expected_remaining, runs,
                    firstRecord >>

CheckMatch ==
    /\ pc = "match"
    /\ matches' = (expected_remaining = DeclaredRemaining(mqtt_packet))
    /\ pc' = "done"
    /\ UNCHANGED << mqtt_packet, topicLength, topic_len_field, topic_len,
                    payload_start, payload, expected_remaining, err, runs,
                    firstRecord >>

\* the script body is executed again on the same inputs; the module-level
\* names keep the values the previous run left in them.
Rerun ==
    /\ pc \in { "done", "failed" }
    /\ runs < MaxRuns
    /\ firstRecord' = IF runs = 1 THEN Record ELSE firstRecord
    /\ runs' = runs + 1
    /\ err' = "none"
    /\ pc' = "header"
    /\ UNCHANGED << mqtt_packet, topicLength, topic_len_field, topic_len,
                    payload_start, payload, expected_remaining, matches >>

Next ==
    \/ PrintHeader
    \/ AssignConsts
    \/ CalcPayloadStart
    \/ SlicePayload
    \/ CalcExpected
    \/ CheckMatch
    \/ Rerun

Spec == Init /\ [][Next]_vars

\* ------------------------------------------------------------ vocabulary
Finished == pc \in { "done", "failed" }

\* the contract's valid inputs: 2 + 2 + topicLength <= length(packet)
ValidInput ==
    HeaderBytes + TopicLenFieldSize + topicLength <= Len(mqtt_packet)

OutOfRangeInput ==
    HeaderBytes + TopicLenFieldSize + topicLength > Len(mqtt_packet)

ScriptInput == mqtt_packet = ScriptPacket /\ topicLength = ScriptTopicLen

TypeOK ==
    /\ pc \in { "header", "consts", "start", "slice", "expected", "match",
                "done", "failed" }
    /\ err \in { "none", "IndexError" }
    /\ runs \in 1..MaxRuns

\* ---------------------------------------------------------------- claims

\* C1: for the script's literal packet and topicLength = 10 the run ends
\* normally with computedPayloadLength = 13, computedRemainingLength = 25,
\* declaredRemainingLength = 24 and matches = false.
C1_ScriptScenario ==
    ScriptInput =>
        /\ pc # "failed"
        /\ pc = "done" =>
              /\ Record.error = "none"
              /\ Record.computedPayloadLength = 13
              /\ Record.computedRemainingLength = 25
              /\ Record.declaredRemainingLength = 24
              /\ Record.matches = FALSE

C1_Witness == ScriptInput /\ pc = "done" /\ Len(payload) = 13

C3_PayloadLengthExact ==
    (ValidInput /\ pc \in { "expected", "match", "done" }) =>
        /\ Len(payload) = Len(mqtt_packet) - 4 - topicLength
        /\ topicLength = 0 => Len(payload) = Len(mqtt_packet) - 4

C3_Witness ==
    /\ ValidInput
    /\ pc = "done"
    /\ topicLength = 0
    /\ Len(payload) = Len(mqtt_packet) - 4
    /\ Len(payload) > 0

\* C4: for every valid input matches is true iff the byte packet[1]
\* equals topicLengthFieldSize + topicLength + computedPayloadLength.
C4_MatchesIff ==
    (ValidInput /\ pc = "done") =>
        (matches <=>
            mqtt_packet[2] = TopicLenFieldSize + topicLength + Len(payload))

C4_Witness ==
    /\ ValidInput
    /\ pc = "done"
    /\ matches
    /\ mqtt_packet[2] = TopicLenFieldSize + topicLength + Len(payload)

\* C5: a length mismatch is not an error: every valid input runs to a
\* record, with matches = false when the lengths differ, and no error
\* other than OutOfRange ever ends a run on a packet of at least 2 bytes.
C5_MismatchIsNotAnError ==
    /\ ValidInput =>
          /\ pc # "failed"
          /\ err = "none"
          /\ (pc = "done" /\ expected_remaining # mqtt_packet[2]) =>
                 (Record.error = "none" /\ Record.matches = FALSE)
    /\ Len(mqtt_packet) >= 2 => err \in { "none", "OutOfRange" }

C5_Witness ==
    /\ ValidInput
    /\ pc = "done"
    /\ expected_remaining # mqtt_packet[2]
    /\ ~matches

\* C6: when 2 + 2 + topicLength = length(packet) exactly the run succeeds,
\* payloadBytes is empty and computedPayloadLength is 0.
C6_ExactBoundary ==
    (HeaderBytes + TopicLenFieldSize + topicLength = Len(mqtt_packet)) =>
        /\ pc # "failed"
        /\ err = "none"
        /\ pc \in { "expected", "match", "done" } =>
              (payload = <<>> /\ Len(payload) = 0)

C6_Witness ==
    /\ HeaderBytes + TopicLenFieldSize + topicLength = Len(mqtt_packet)
    /\ pc = "done"
    /\ payload_start = Len(mqtt_packet)

\* C7: a second run of the body on the same packet and topicLength ends
\* with the same record (or the same error) as the first run, although the
\* names of the first run are still bound when it starts.
C7_SecondRunSameRecord ==
    (runs >= 2 /\ Finished) => Record = firstRecord

C7_Witness ==
    /\ runs >= 2
    /\ pc = "done"
    /\ firstRecord.error = "none"
    /\ Len(payload) > 0

\* C8: for every valid input computedRemainingLength is length(packet) - 2
\* whatever topicLength is, so matches holds exactly when
\* length(packet) = 2 + packet[1].
C8_IndependentOfTopicLength ==
    (ValidInput /\ pc = "done") =>
        /\ expected_remaining = Len(mqtt_packet) - 2
        /\ matches <=> (Len(mqtt_packet) = 2 + mqtt_packet[2])

C8_Witness ==
    /\ ValidInput
    /\ pc = "done"
    /\ topicLength = 1
    /\ expected_remaining = Len(mqtt_packet) - 2
    /\ Len(mqtt_packet) = 2 + mqtt_packet[2]

\* C9: for every valid input payloadBytes is the suffix of packet starting
\* at index 2 + 2 + topicLength: its length is computedPayloadLength and
\* the first 2 + 2 + topicLength bytes followed by it give packet back.
C9_PayloadIsSuffix ==
    (ValidInput /\ pc = "done") =>
        LET k == HeaderBytes + TopicLenFieldSize + topicLength
        IN  /\ Len(Record.payloadBytes) = Record.computedPayloadLength
            /\ SubSeq(mqtt_packet, 1, k) \o Record.payloadBytes = mqtt_packet
            /\ \A i \in 1..Len(payload) : payload[i] = mqtt_packet[k + i]

C9_Witness ==
    /\ ValidInput
    /\ pc = "done"
    /\ topicLength > 0
    /\ Len(payload) >= 2
    /\ payload[1] # payload[2]

\* C10: topic_len is the separately supplied value and is never decoded
\* from the packet; for the script's literal packet it equals the
\* big-endian prefix packet[2..3] = 10, so payload_start = 14 is the index
\* of the first byte after the topic text.
C10_TopicLenSupplied ==
    /\ pc \in { "start", "slice", "expected", "match", "done" } =>
          topic_len = topicLength
    /\ (ScriptInput /\ pc \in { "slice", "expected", "match", "done" }) =>
          /\ topic_len = 10
          /\ mqtt_packet[3] * 256 + mqtt_packet[4] = topic_len
          /\ payload_start = 14
          /\ payload_start = HeaderBytes + TopicLenFieldSize + 10
    /\ (ScriptInput /\ pc = "done") =>
          payload = << 72, 101, 108, 108, 111, 44, 32, 87, 111, 114, 108,
                       100, 33 >>

C10_Witness ==
    /\ ScriptInput
    /\ pc = "done"
    /\ payload_start = 14
    /\ TopicPrefix(mqtt_packet) = topic_len

====
